---- MODULE Spec2Model ----
(***************************************************************************)
(* Model of the land-search agent of sitrans-terrenos:                     *)
(*   src/src/realestate/data_loader.py  (Listing, MACROZONE_BY_REGION)     *)
(*   src/src/realestate/agent.py        (SearchCriteria, SearchResult,     *)
(*                                       RealEstateSearchAgent)            *)
(*                                                                         *)
(* Numbers.  Python floats are modelled as exact rationals [n, d] in       *)
(* lowest terms with d > 0.  Two more values share the shape so that every *)
(* numeric field stays comparable: Raised (d = 0) is the outcome of an     *)
(* arithmetic step that raises ZeroDivisionError, and it propagates        *)
(* through every later step the way the exception unwinds the call; None   *)
(* (d = -1) is Python's None for the optional price caps.  Floating-point  *)
(* rounding is not modelled.                                               *)
(*                                                                         *)
(* Strings.  TLA+ strings are ASCII, so the accented names of the source   *)
(* are written without accents ("ubicacion" for "ubicación", "Region       *)
(* alternativa" for "Región alternativa") and the region table keeps its   *)
(* ASCII keys.                                                             *)
(***************************************************************************)
EXTENDS Integers, Sequences, FiniteSets, TLC

VARIABLES
    listings,   \* RealEstateSearchAgent._listings
    pc,         \* per caller: position inside search
    criteria,   \* per caller: the criteria argument of its call
    top_n,      \* per caller: the top_n argument of its call
    cursor,     \* per caller: index of the next listing the for loop visits
    results,    \* per caller: the local list `results` of search
    ret,        \* per caller: the value its last completed call returned
    fnListing,  \* input listing of a direct call to matches / _score_listing
    fnCriteria, \* input criteria of a direct call
    fnMatch,    \* outcome of criteria.matches(listing): "none", "true", "false"
    fnScore     \* outcome of _score_listing(listing, criteria), or NotCalled

vars == <<listings, pc, criteria, top_n, cursor, results, ret,
          fnListing, fnCriteria, fnMatch, fnScore>>

agentVars == <<listings, pc, criteria, top_n, cursor, results, ret>>
fnVars == <<fnListing, fnCriteria, fnMatch, fnScore>>

----------------------------------------------------------------------------
(* Exact arithmetic standing for Python's float arithmetic.                *)

RECURSIVE GCD(_, _)
GCD(a, b) ==
    IF b = 0 THEN a ELSE GCD(b, a % b)

Abs(x) ==
    IF x < 0 THEN -x ELSE x

Raised ==
    [n |-> 0, d |-> 0]

None ==
    [n |-> 0, d |-> -1]

IsRaised(x) ==
    x.d = 0

IsNone(x) ==
    x.d = -1

\* The rational n/d (d # 0) in lowest terms with a positive denominator.
Rat(n, d) ==
    LET g == GCD(Abs(n), Abs(d))
        s == IF d < 0 THEN -1 ELSE 1
    IN  [n |-> s * (n \div g), d |-> s * (d \div g)]

Num(k) ==
    [n |-> k, d |-> 1]

\* The least common denominator of a and b.
CommonDenominator(a, b) ==
    (a.d \div GCD(a.d, b.d)) * b.d

\* The numerator of a over the denominator l, a multiple of a.d.
Over(a, l) ==
    a.n * (l \div a.d)

RAdd(a, b) ==
    IF IsRaised(a) \/ IsRaised(b) THEN Raised
    ELSE LET l == CommonDenominator(a, b)
         IN  Rat(Over(a, l) + Over(b, l), l)

RSub(a, b) ==
    IF IsRaised(a) \/ IsRaised(b) THEN Raised
    ELSE LET l == CommonDenominator(a, b)
         IN  Rat(Over(a, l) - Over(b, l), l)

RMul(a, b) ==
    IF IsRaised(a) \/ IsRaised(b) THEN Raised
    ELSE LET g1 == GCD(Abs(a.n), b.d)
             g2 == GCD(Abs(b.n), a.d)
         IN  IF a.n = 0 \/ b.n = 0 THEN [n |-> 0, d |-> 1]
             ELSE Rat((a.n \div g1) * (b.n \div g2),
                      (a.d \div g2) * (b.d \div g1))

\* Python's a / b: ZeroDivisionError when b is zero.
RDiv(a, b) ==
    IF IsRaised(a) \/ IsRaised(b) THEN Raised
    ELSE IF b.n = 0 THEN Raised
    ELSE RMul(a, IF b.n < 0 THEN [n |-> -b.d, d |-> -b.n]
                 ELSE [n |-> b.d, d |-> b.n])

RLt(a, b) ==
    LET l == CommonDenominator(a, b)
    IN  Over(a, l) < Over(b, l)

RLe(a, b) ==
    LET l == CommonDenominator(a, b)
    IN  Over(a, l) <= Over(b, l)

\* Python's max(a, b) and min(a, b): the first argument wins a tie.
RMax(a, b) ==
    IF IsRaised(a) \/ IsRaised(b) THEN Raised
    ELSE IF RLt(a, b) THEN b ELSE a

RMin(a, b) ==
    IF IsRaised(a) \/ IsRaised(b) THEN Raised
    ELSE IF RLt(b, a) THEN b ELSE a

\* Truthiness of a number: bool(x) is False exactly for zero.
Truthy(x) ==
    x.n # 0

\* round(x, 2): nearest multiple of 1/100, a tie going to the even one.
Round2(x) ==
    IF IsRaised(x) THEN Raised
    ELSE IF 100 % x.d = 0 THEN x
    ELSE LET num == 100 * x.n
             q == num \div x.d
             r2 == 2 * (num % x.d)
             up == r2 > x.d \/ (r2 = x.d /\ q % 2 = 1)
         IN  Rat(IF up THEN q + 1 ELSE q, 100)

----------------------------------------------------------------------------
(* Strings: str.lower() on the strings the model uses.                     *)

\* <<s, s.lower()>> for every string of the model with an upper-case letter.
CasedStrings ==
    { <<"Maule", "maule">>, <<"MAULE", "maule">>,
      <<"Coquimbo", "coquimbo">>, <<"COQUIMBO", "coquimbo">>,
      <<"Los Lagos", "los lagos">>,
      <<"Zona Centro-Sur", "zona centro-sur">>,
      <<"ZONA CENTRO-SUR", "zona centro-sur">>,
      <<"Norte Chico", "norte chico">>,
      <<"Zona Austral", "zona austral">>,
      <<"Zona Desconocida", "zona desconocida">>,
      <<"Industrial", "industrial">>, <<"Agricola", "agricola">>,
      <<"ZI-1", "zi-1">>, <<"Rural", "rural">>,
      <<"Agua", "agua">>, <<"AGUA", "agua">>,
      <<"Electricidad", "electricidad">>,
      <<"Carretera", "carretera">>, <<"Ferrocarril", "ferrocarril">>,
      <<"Aeropuerto", "aeropuerto">>, <<"Puerto", "puerto">> }

Lower(s) ==
    IF \E p \in CasedStrings : p[1] = s
    THEN (CHOOSE p \in CasedStrings : p[1] = s)[2]
    ELSE s

LowerSet(S) ==
    { Lower(s) : s \in S }

----------------------------------------------------------------------------
(* data_loader.py                                                          *)

\* MACROZONE_BY_REGION, its keys that are plain ASCII.
MACROZONE_BY_REGION ==
    { <<"Antofagasta", "Norte Grande">>,
      <<"Atacama", "Norte Chico">>,
      <<"Coquimbo", "Norte Chico">>,
      <<"Metropolitana de Santiago", "Zona Centro">>,
      <<"Libertador General Bernardo O'Higgins", "Zona Centro">>,
      <<"O'Higgins", "Zona Centro">>,
      <<"Maule", "Zona Centro-Sur">>,
      <<"Nuble", "Zona Sur">>,
      <<"Biobio", "Zona Sur">>,
      <<"Los Lagos", "Zona Austral">>,
      <<"Aysen del General Carlos Ibanez del Campo", "Zona Austral">> }

\* Listing.macrozone
macrozone(listing) ==
    IF \E p \in MACROZONE_BY_REGION : p[1] = listing.region
    THEN (CHOOSE p \in MACROZONE_BY_REGION : p[1] = listing.region)[2]
    ELSE "Zona Desconocida"

\* Listing.total_price
total_price(listing) ==
    RMul(listing.area_m2, listing.price_per_m2)

----------------------------------------------------------------------------
(* agent.py: SearchCriteria                                                *)

\* Variant of _area_threshold_m2: a hectare taken as 1000 m2.
area_threshold_wrong_unit(c) ==
    LET min_m2 == RMax(c.min_area_m2, Num(0))
    IN  IF Truthy(c.min_area_hectares)
        THEN RMax(min_m2, RMul(c.min_area_hectares, Num(1000)))
        ELSE min_m2

\* SearchCriteria._area_threshold_m2
area_threshold_m2(c) ==
    LET min_m2 == RMax(c.min_area_m2, Num(0))
    IN  IF Truthy(c.min_area_hectares)
        THEN RMax(min_m2, RMul(c.min_area_hectares, Num(10000)))
        ELSE min_m2

\* Variant of cap_exceeded: `cap and value > cap`, a cap of 0 counts as unset.
cap_exceeded_truthy(cap, value) ==
    ~IsNone(cap) /\ Truthy(cap) /\ RLt(cap, value)

\* `cap is not None and value > cap`
cap_exceeded(cap, value) ==
    ~IsNone(cap) /\ RLt(cap, value)

\* SearchCriteria.matches
matches(c, listing) ==
    IF c.preferred_macrozones # {}
       /\ Lower(macrozone(listing)) \notin LowerSet(c.preferred_macrozones)
    THEN FALSE
    ELSE IF c.preferred_regions # {}
       /\ Lower(listing.region) \notin LowerSet(c.preferred_regions)
    THEN FALSE
    ELSE IF c.desired_property_types # {}
       /\ Lower(listing.property_type) \notin LowerSet(c.desired_property_types)
    THEN FALSE
    ELSE IF c.target_zonings # {}
       /\ Lower(listing.zoning) \notin LowerSet(c.target_zonings)
    THEN FALSE
    ELSE IF RLt(listing.area_m2, area_threshold_m2(c))
    THEN FALSE
    ELSE IF cap_exceeded(c.max_total_price, total_price(listing))
    THEN FALSE
    ELSE IF cap_exceeded(c.max_price_per_m2, listing.price_per_m2)
    THEN FALSE
    ELSE \A service \in c.required_services :
            Lower(service) \in LowerSet(listing.services)

----------------------------------------------------------------------------
(* agent.py: transport                                                     *)
(* A value of the listing's transport dict is [t, n, d]: t = "num" is the  *)
(* number n/d, t = "bool" is a bool (n = 1 for True, 0 for False, d = 1),  *)
(* t = "str" is a string (n = 1 non-empty, 0 empty, d = 1).                *)

Absent ==
    [t |-> "none", n |-> 0, d |-> 1]

\* dict.get(key): the value, or None when the key is missing.
Get(data, key) ==
    IF key \in DOMAIN data THEN data[key] ELSE Absent

\* isinstance(v, (int, float)); bool is a subclass of int.
IsNumber(v) ==
    v.t \in {"num", "bool"}

\* isinstance(v, bool)
IsBool(v) ==
    v.t = "bool"

\* bool(v)
TruthyValue(v) ==
    v.t # "none" /\ v.n # 0

NumberOf(v) ==
    [n |-> v.n, d |-> v.d]

\* Variant of Proximity: 1.0 - distance / reach, without the two clamps.
ProximityUnclamped(distance, reach) ==
    RSub(Num(1), RDiv(distance, Num(reach)))

\* max(0.0, 1.0 - min(distance / reach, 1.0))
Proximity(distance, reach) ==
    RMax(Num(0), RSub(Num(1), RMin(RDiv(distance, Num(reach)), Num(1))))

\* RealEstateSearchAgent._mode_availability
mode_availability(mode0, data) ==
    LET mode == Lower(mode0)
    IN  IF mode = "carretera"
        THEN LET distance == Get(data, "distancia_km")
             IN  IF IsNumber(distance)
                 THEN Proximity(NumberOf(distance), 10)
                 ELSE IF "carretera" \in DOMAIN data THEN Rat(7, 10) ELSE Num(0)
        ELSE IF mode = "ferrocarril"
        THEN LET value == Get(data, "ferrocarril")
             IN  IF IsBool(value)
                 THEN (IF value.n = 1 THEN Num(1) ELSE Num(0))
                 ELSE IF TruthyValue(value) THEN Rat(1, 2) ELSE Num(0)
        ELSE IF mode = "aeropuerto"
        THEN LET distance == Get(data, "aeropuerto_km")
             IN  IF IsNumber(distance)
                 THEN Proximity(NumberOf(distance), 50)
                 ELSE Num(0)
        ELSE IF TruthyValue(Get(data, mode)) THEN Rat(1, 2) ELSE Num(0)

\* sum(importance.values())
RECURSIVE SumValues(_, _)
SumValues(importance, keys) ==
    IF keys = {} THEN Num(0)
    ELSE LET k == CHOOSE x \in keys : TRUE
         IN  RAdd(importance[k], SumValues(importance, keys \ {k}))

\* float(sum(importance.values())) or 1.0
WeightTotal(importance) ==
    LET s == SumValues(importance, DOMAIN importance)
    IN  IF Truthy(s) THEN s ELSE Num(1)

\* the loop `for mode, weight in normalized.items(): score += weight * availability`
RECURSIVE Accumulate(_, _, _)
Accumulate(normalized, data, keys) ==
    IF keys = {} THEN Num(0)
    ELSE LET mode == CHOOSE x \in keys : TRUE
         IN  RAdd(RMul(normalized[mode], mode_availability(mode, data)),
                  Accumulate(normalized, data, keys \ {mode}))

\* Variant of transport_score: the weights are used as given, not normalized.
transport_score_raw(listing, importance) ==
    IF DOMAIN importance = {} THEN Rat(6, 10)
    ELSE Accumulate(importance, listing.transport, DOMAIN importance)

\* RealEstateSearchAgent._transport_score
transport_score(listing, importance) ==
    IF DOMAIN importance = {} THEN Rat(6, 10)
    ELSE LET total == WeightTotal(importance)
             normalized == [key \in DOMAIN importance |->
                               RDiv(importance[key], total)]
         IN  Accumulate(normalized, listing.transport, DOMAIN importance)

----------------------------------------------------------------------------
(* agent.py: RealEstateSearchAgent._score_listing                          *)

Dimensions ==
    {"ubicacion", "servicios", "precio", "conectividad", "superficie"}

\* Variant of price_cap_given: `if criteria.max_total_price is not None:`.
price_cap_not_none(cap) ==
    ~IsNone(cap)

\* `if criteria.max_total_price:` / `if criteria.max_price_per_m2:`
\* (None and 0 are both falsy).
price_cap_given(cap) ==
    ~IsNone(cap) /\ Truthy(cap)

\* max(0.0, 1.0 - min(ratio, 1.5))
price_ratio_score(ratio) ==
    RMax(Num(0), RSub(Num(1), RMin(ratio, Rat(3, 2))))

\* Variant of location: membership is tested on lower-cased strings, as the
\* filter does.
location_ignoring_case(listing, c) ==
    IF c.preferred_regions # {}
    THEN IF Lower(listing.region) \in LowerSet(c.preferred_regions)
         THEN [value |-> Num(1), label |-> "Region preferida"]
         ELSE [value |-> Rat(4, 10), label |-> "Region alternativa"]
    ELSE IF c.preferred_macrozones # {}
    THEN IF Lower(macrozone(listing)) \in LowerSet(c.preferred_macrozones)
         THEN [value |-> Rat(9, 10), label |-> "Macrozona preferida"]
         ELSE [value |-> Rat(5, 10), label |-> "Macrozona alternativa"]
    ELSE [value |-> Rat(7, 10), label |-> "Sin preferencia"]

\* The location value and its label.
location(listing, c) ==
    IF c.preferred_regions # {}
    THEN IF listing.region \in c.preferred_regions
         THEN [value |-> Num(1), label |-> "Region preferida"]
         ELSE [value |-> Rat(4, 10), label |-> "Region alternativa"]
    ELSE IF c.preferred_macrozones # {}
    THEN IF macrozone(listing) \in c.preferred_macrozones
         THEN [value |-> Rat(9, 10), label |-> "Macrozona preferida"]
         ELSE [value |-> Rat(5, 10), label |-> "Macrozona alternativa"]
    ELSE [value |-> Rat(7, 10), label |-> "Sin preferencia"]

\* services_score
services_score(listing, c) ==
    LET services == LowerSet(listing.services)
        required == LowerSet(c.required_services)
        preferred == LowerSet(c.preferred_services)
        coverage ==
            IF required # {}
            THEN RDiv(Num(Cardinality(required \cap services)),
                      Num(Cardinality(required)))
            ELSE Num(1)
        preferred_score ==
            IF preferred # {}
            THEN RDiv(Num(Cardinality(preferred \cap services)),
                      Num(Cardinality(preferred)))
            ELSE Rat(1, 2)
    IN  RMul(Rat(4, 10),
             RAdd(RMul(Rat(6, 10), coverage), RMul(Rat(4, 10), preferred_score)))

\* Variant of price_component: `price_component + ... / 2`, the division
\* binding to the second term only.
price_component_unbracketed(listing, c) ==
    LET first ==
            IF price_cap_given(c.max_total_price)
            THEN price_ratio_score(RDiv(total_price(listing), c.max_total_price))
            ELSE Rat(6, 10)
    IN  IF price_cap_given(c.max_price_per_m2)
        THEN RAdd(first,
                  RDiv(price_ratio_score(RDiv(listing.price_per_m2,
                                              c.max_price_per_m2)),
                       Num(2)))
        ELSE first

\* price_component
price_component(listing, c) ==
    LET first ==
            IF price_cap_given(c.max_total_price)
            THEN price_ratio_score(RDiv(total_price(listing), c.max_total_price))
            ELSE Rat(6, 10)
    IN  IF price_cap_given(c.max_price_per_m2)
        THEN RDiv(RAdd(first,
                       price_ratio_score(RDiv(listing.price_per_m2,
                                              c.max_price_per_m2))),
                  Num(2))
        ELSE first

\* Variant of area_score: saturation at five times the minimum.
area_score_five(listing, c) ==
    LET area_ratio == RDiv(listing.area_m2, RMax(area_threshold_m2(c), Num(1)))
    IN  RMin(RDiv(area_ratio, Num(5)), Num(1))

\* area_score: saturates once the area is four times the minimum.
area_score(listing, c) ==
    LET area_ratio == RDiv(listing.area_m2, RMax(area_threshold_m2(c), Num(1)))
    IN  RMin(RDiv(area_ratio, Num(4)), Num(1))

\* Variant of score_sum: the last `score += breakdown[...]` is missing.
score_sum_short(ubicacion, servicios, precio, conectividad, superficie) ==
    RAdd(RAdd(RAdd(RAdd(Num(0), ubicacion), servicios), precio), conectividad)

\* score = 0.0, then one `score += ...` per dimension, in the order of the code.
score_sum(ubicacion, servicios, precio, conectividad, superficie) ==
    RAdd(RAdd(RAdd(RAdd(RAdd(Num(0), ubicacion), servicios), precio),
              conectividad), superficie)

\* RealEstateSearchAgent._score_listing: (score, breakdown, highlights).
\* The two sorted service lists of the highlights are kept as the sets they
\* are the sorted listing of.
score_listing(listing, c) ==
    LET loc == location(listing, c)
        services == LowerSet(listing.services)
        required == LowerSet(c.required_services)
        preferred == LowerSet(c.preferred_services)
        ubicacion == RMul(loc.value, Rat(25, 100))
        servicios == services_score(listing, c)
        precio == RMul(price_component(listing, c), Rat(2, 10))
        conectividad ==
            RMul(transport_score(listing, c.transport_importance), Rat(15, 100))
        superficie == RMul(area_score(listing, c), Rat(2, 10))
    IN  [ score |-> score_sum(ubicacion, servicios, precio, conectividad,
                              superficie),
          breakdown |->
            [ ubicacion |-> ubicacion,
              servicios |-> servicios,
              precio |-> precio,
              conectividad |-> conectividad,
              superficie |-> superficie ],
          highlights |->
            [ region |-> listing.region,
              macrozona |-> macrozone(listing),
              ubicacion |-> loc.label,
              servicios_cubiertos |-> required \cap services,
              servicios_preferidos |-> preferred \cap services,
              precio_total_clp |-> Round2(total_price(listing)),
              precio_m2_clp |-> listing.price_per_m2,
              transporte |-> listing.transport,
              area_m2 |-> listing.area_m2,
              area_ha |-> RDiv(listing.area_m2, Num(10000)) ] ]

\* Whether the call to _score_listing raised instead of returning.
ScoreRaised(s) ==
    \/ IsRaised(s.score)
    \/ \E k \in DOMAIN s.breakdown : IsRaised(s.breakdown[k])
    \/ IsRaised(s.highlights.precio_total_clp)
    \/ IsRaised(s.highlights.area_ha)

----------------------------------------------------------------------------
(* agent.py: RealEstateSearchAgent.search                                  *)
(* A SearchResult is [index, listing, score, breakdown, highlights]; index *)
(* is the position in _listings of the object its `listing` field refers   *)
(* to (the result holds a reference, and the same record may be listed     *)
(* twice).                                                                 *)

\* SearchResult(listing, score, breakdown, highlights)
SearchResult(index, listing, s) ==
    [ index |-> index, listing |-> listing, score |-> s.score,
      breakdown |-> s.breakdown, highlights |-> s.highlights ]

\* One step of a stable descending sort: r goes behind every element whose
\* score is not smaller.
RECURSIVE InsertByScore(_, _)
InsertByScore(sorted, r) ==
    IF sorted = <<>> THEN <<r>>
    ELSE IF RLt(Head(sorted).score, r.score) THEN <<r>> \o sorted
    ELSE <<Head(sorted)>> \o InsertByScore(Tail(sorted), r)

RECURSIVE SortFrom(_, _)
SortFrom(sorted, rest) ==
    IF rest = <<>> THEN sorted
    ELSE SortFrom(InsertByScore(sorted, Head(rest)), Tail(rest))

RECURSIVE Reverse(_)
Reverse(rs) ==
    IF rs = <<>> THEN <<>> ELSE Append(Reverse(Tail(rs)), Head(rs))

\* Variant of sort_by_score: sorted(results, key=score)[::-1], which turns
\* equal scores around.
sort_then_reverse(rs) ==
    SortFrom(<<>>, Reverse(rs))

\* results.sort(key=lambda result: result.score, reverse=True); list.sort is
\* stable, also with reverse=True.
sort_by_score(rs) ==
    SortFrom(<<>>, rs)

\* Variant of slice_top: the whole list is returned.
slice_none(rs, n) ==
    rs

\* results[:top_n], for any int top_n (a negative one counts from the end).
slice_top(rs, n) ==
    LET stop == IF n >= 0
                THEN (IF n < Len(rs) THEN n ELSE Len(rs))
                ELSE (IF Len(rs) + n > 0 THEN Len(rs) + n ELSE 0)
    IN  SubSeq(rs, 1, stop)

\* Variant of skipped: no listing is skipped.
skipped_never(c, listing) ==
    FALSE

\* `if not criteria.matches(listing): continue`
skipped(c, listing) ==
    ~matches(c, listing)

\* The list `results` after the for loop has visited listings 1..k of ls.
RECURSIVE collect(_, _, _)
collect(ls, c, k) ==
    IF k = 0 THEN <<>>
    ELSE IF skipped(c, ls[k]) THEN collect(ls, c, k - 1)
    ELSE Append(collect(ls, c, k - 1),
                SearchResult(k, ls[k], score_listing(ls[k], c)))

\* RealEstateSearchAgent.search run from entry to return with nothing else
\* running.
search(ls, c, n) ==
    slice_top(sort_by_score(collect(ls, c, Len(ls))), n)

\* Variant of new_results: the list of the caller's previous call is kept.
stale_results(p) ==
    results[p]

\* `results: List[SearchResult] = []`: every call builds a list of its own.
new_results(p) ==
    <<>>

\* Variant of append_result: one list shared by every caller.
append_shared(p, r) ==
    [q \in DOMAIN results |-> Append(results[q], r)]

\* results.append(result), on the list of the call that runs it.
append_result(p, r) ==
    [results EXCEPT ![p] = Append(@, r)]

----------------------------------------------------------------------------
(* The repositories, criteria and callers of the search model.             *)

MaxListings == 2
MaxTopN == 2
MaxScale == 3

\* `top_n: int = 5`
DefaultTopN == 5

Callers ==
    {"t1", "t2"}

NoTransport ==
    [k \in {} |-> Absent]

NumValue(n, d) ==
    [t |-> "num", n |-> n, d |-> d]

BoolValue(b) ==
    [t |-> "bool", n |-> IF b THEN 1 ELSE 0, d |-> 1]

StrValue(nonEmpty) ==
    [t |-> "str", n |-> IF nonEmpty THEN 1 ELSE 0, d |-> 1]

ListingA ==
    [ id |-> "A", region |-> "Coquimbo", property_type |-> "Industrial",
      area_m2 |-> Num(10000), price_per_m2 |-> Num(5), zoning |-> "ZI-1",
      services |-> {"agua", "electricidad"},
      transport |-> [k \in {"distancia_km", "ferrocarril"} |->
                        IF k = "distancia_km" THEN NumValue(2, 1)
                        ELSE BoolValue(TRUE)] ]

ListingB ==
    [ id |-> "B", region |-> "Maule", property_type |-> "Agricola",
      area_m2 |-> Num(3000), price_per_m2 |-> Num(4), zoning |-> "Rural",
      services |-> {"Electricidad"},
      transport |-> [k \in {"carretera"} |-> StrValue(TRUE)] ]

ListingZ ==
    [ id |-> "Z", region |-> "Los Lagos", property_type |-> "Agricola",
      area_m2 |-> Num(0), price_per_m2 |-> Num(0), zoning |-> "Rural",
      services |-> {},
      transport |-> NoTransport ]

\* SearchCriteria(): every field at its default.
DefaultCriteria ==
    [ preferred_regions |-> {}, preferred_macrozones |-> {},
      target_zonings |-> {}, min_area_m2 |-> Num(0),
      min_area_hectares |-> Num(0), max_total_price |-> None,
      max_price_per_m2 |-> None, required_services |-> {},
      preferred_services |-> {}, transport_importance |-> NoTransport,
      desired_property_types |-> {} ]

RegionCriteria ==
    [DefaultCriteria EXCEPT !.preferred_regions = {"maule"},
                            !.preferred_services = {"agua"}]

ZeroCriteria ==
    [DefaultCriteria EXCEPT
        !.max_total_price = Num(0),
        !.max_price_per_m2 = Num(0),
        !.transport_importance =
            [k \in {"carretera", "ferrocarril"} |-> Num(0)]]

SearchListings ==
    {ListingA, ListingB, ListingZ}

SearchCriterias ==
    {DefaultCriteria, RegionCriteria, ZeroCriteria}

TopNs ==
    (-1) .. MaxTopN

Repositories ==
    UNION { [1..k -> SearchListings] : k \in 0..MaxListings }

----------------------------------------------------------------------------
(* The search model: callers sharing one agent, each inside search at its  *)
(* own position; a step of one caller is one pass of the for loop.         *)

Init ==
    /\ listings \in Repositories
    /\ pc = [p \in Callers |-> "idle"]
    /\ criteria = [p \in Callers |-> DefaultCriteria]
    /\ top_n = [p \in Callers |-> 0]
    /\ cursor = [p \in Callers |-> 0]
    /\ results = [p \in Callers |-> <<>>]
    /\ ret = [p \in Callers |-> <<>>]
    /\ fnListing = ListingA
    /\ fnCriteria = DefaultCriteria
    /\ fnMatch = "none"
    /\ fnScore = <<>>

\* agent.search(c, n) is entered: `results = []`, the for loop starts.
Call(p, c, n) ==
    /\ pc[p] \in {"idle", "done", "error"}
    /\ pc' = [pc EXCEPT ![p] = "loop"]
    /\ criteria' = [criteria EXCEPT ![p] = c]
    /\ top_n' = [top_n EXCEPT ![p] = n]
    /\ cursor' = [cursor EXCEPT ![p] = 1]
    /\ results' = [results EXCEPT ![p] = new_results(p)]
    /\ ret' = [ret EXCEPT ![p] = <<>>]
    /\ UNCHANGED <<listings, fnVars>>

\* One pass of `for listing in self._listings`.
Iterate(p) ==
    /\ pc[p] = "loop"
    /\ cursor[p] <= Len(listings)
    /\ LET listing == listings[cursor[p]]
           s == score_listing(listing, criteria[p])
       IN  IF skipped(criteria[p], listing)
           THEN /\ cursor' = [cursor EXCEPT ![p] = @ + 1]
                /\ UNCHANGED <<pc, results>>
           ELSE IF ScoreRaised(s)
           THEN /\ pc' = [pc EXCEPT ![p] = "error"]
                /\ UNCHANGED <<cursor, results>>
           ELSE /\ results' = append_result(p, SearchResult(cursor[p], listing, s))
                /\ cursor' = [cursor EXCEPT ![p] = @ + 1]
                /\ UNCHANGED pc
    /\ UNCHANGED <<listings, criteria, top_n, ret, fnVars>>

\* Variant of listings_after_sort: the sort is applied to self._listings, as
\* self._listings.sort(key=score, reverse=True) would.
listings_sorted_in_place(p) ==
    LET scored == [i \in 1..Len(listings) |->
                      [listing |-> listings[i],
                       score |-> score_listing(listings[i], criteria[p]).score]]
        sorted == sort_by_score(scored)
    IN  [i \in 1..Len(listings) |-> sorted[i].listing]

\* self._listings once `results.sort(...)` has run: the sort is in place on
\* the local list `results`, a list other than self._listings.
listings_after_sort(p) ==
    listings

\* The loop is over: sort in place, return the slice.
Return(p) ==
    /\ pc[p] = "loop"
    /\ cursor[p] > Len(listings)
    /\ results' = [results EXCEPT ![p] = sort_by_score(@)]
    /\ ret' = [ret EXCEPT ![p] = slice_top(sort_by_score(results[p]), top_n[p])]
    /\ pc' = [pc EXCEPT ![p] = "done"]
    /\ listings' = listings_after_sort(p)
    /\ UNCHANGED <<criteria, top_n, cursor, fnVars>>

Next ==
    \E p \in Callers :
        \/ \E c \in SearchCriterias, n \in TopNs : Call(p, c, n)
        \/ Iterate(p)
        \/ Return(p)

Spec ==
    Init /\ [][Next]_vars

----------------------------------------------------------------------------
(* The direct-call model: one listing and one criteria object, on which    *)
(* matches, _score_listing and a search of the one-listing repository are  *)
(* each called once.                                                       *)

ListingS ==
    [ id |-> "S", region |-> "maule", property_type |-> "industrial",
      area_m2 |-> Num(1), price_per_m2 |-> Rat(3, 8), zoning |-> "zi-1",
      services |-> {"AGUA"},
      transport |-> [k \in {"distancia_km", "aeropuerto_km", "puerto"} |->
                        IF k = "distancia_km" THEN BoolValue(TRUE)
                        ELSE IF k = "aeropuerto_km" THEN NumValue(25, 1)
                        ELSE NumValue(1, 1)] ]

ListingT ==
    [ id |-> "T", region |-> "MAULE", property_type |-> "Agricola",
      area_m2 |-> Num(20000), price_per_m2 |-> Rat(3, 5), zoning |-> "Rural",
      services |-> {"Agua", "Electricidad"},
      transport |-> [k \in {"distancia_km", "ferrocarril", "carretera",
                            "aeropuerto_km", "puerto"} |->
                        IF k = "distancia_km" THEN NumValue(15, 1)
                        ELSE IF k = "ferrocarril" THEN StrValue(TRUE)
                        ELSE IF k = "carretera" THEN BoolValue(FALSE)
                        ELSE IF k = "aeropuerto_km" THEN NumValue(60, 1)
                        ELSE StrValue(FALSE)] ]

ListingH ==
    [ id |-> "H", region |-> "Coquimbo", property_type |-> "Industrial",
      area_m2 |-> Num(5000), price_per_m2 |-> Rat(12, 5), zoning |-> "Rural",
      services |-> {"electricidad"},
      transport |-> [k \in {"ferrocarril"} |-> BoolValue(FALSE)] ]

ListingF ==
    [ id |-> "F", region |-> "Maule", property_type |-> "Industrial",
      area_m2 |-> Num(10000), price_per_m2 |-> Num(0), zoning |-> "ZI-1",
      services |-> {"agua", "electricidad"},
      transport |-> [k \in {"distancia_km", "ferrocarril"} |->
                        IF k = "distancia_km" THEN NumValue(0, 1)
                        ELSE BoolValue(TRUE)] ]

FnListings ==
    {ListingA, ListingB, ListingZ, ListingS, ListingT, ListingH, ListingF}

ExampleCriteria ==
    [DefaultCriteria EXCEPT !.required_services = {"electricidad"},
                            !.min_area_m2 = Num(5000)]

Importances ==
    { NoTransport,
      [k \in {"carretera", "ferrocarril"} |-> Num(0)],
      [k \in {"carretera"} |-> Num(1)],
      [k \in {"carretera", "ferrocarril", "aeropuerto"} |->
          IF k = "carretera" THEN Num(2) ELSE Num(1)],
      [k \in {"Carretera", "puerto"} |->
          IF k = "puerto" THEN Rat(3, 2) ELSE Rat(1, 2)],
      [k \in {"Aeropuerto", "Ferrocarril"} |->
          IF k = "Aeropuerto" THEN Num(3) ELSE Num(0)] }

LocationCriterias ==
    { [DefaultCriteria EXCEPT !.preferred_regions = r,
                              !.preferred_macrozones = m,
                              !.desired_property_types = t,
                              !.target_zonings = z] :
        r \in {{}, {"Maule"}, {"coquimbo", "MAULE"}},
        m \in {{}, {"Norte Chico"}, {"ZONA CENTRO-SUR"}},
        t \in {{}, {"industrial"}},
        z \in {{}, {"Rural"}} }

NumericCriterias ==
    { [DefaultCriteria EXCEPT !.min_area_m2 = a,
                              !.min_area_hectares = h,
                              !.max_total_price = tp,
                              !.max_price_per_m2 = pm] :
        a \in {Num(0), Rat(1, 2), Num(5000), Num(-3)},
        h \in {Num(0), Rat(1, 2), Num(-1)},
        tp \in {None, Num(0), Num(12000), Num(60000)},
        pm \in {None, Num(0), Rat(9, 2)} }

ServiceCriterias ==
    { [DefaultCriteria EXCEPT !.required_services = rq,
                              !.preferred_services = pf,
                              !.transport_importance = w] :
        rq \in {{}, {"Electricidad"}, {"agua", "electricidad"}, {"gas"}},
        pf \in {{}, {"agua"}, {"Agua", "gas"}},
        w \in Importances }

IdealCriteria ==
    [DefaultCriteria EXCEPT
        !.preferred_regions = {"Maule"},
        !.min_area_m2 = Num(2500),
        !.max_total_price = Num(60000),
        !.max_price_per_m2 = Rat(9, 2),
        !.required_services = {"electricidad"},
        !.preferred_services = {"agua"},
        !.transport_importance =
            [k \in {"carretera", "ferrocarril"} |-> Num(1)]]

FnCriterias ==
    LocationCriterias \cup NumericCriterias \cup ServiceCriterias
        \cup {ExampleCriteria, RegionCriteria, ZeroCriteria, IdealCriteria}

InitFn ==
    /\ fnListing \in FnListings
    /\ fnCriteria \in FnCriterias
    /\ fnMatch = "none"
    /\ fnScore = <<>>
    /\ listings = <<fnListing>>
    /\ pc = [p \in Callers |-> "idle"]
    /\ criteria = [p \in Callers |-> DefaultCriteria]
    /\ top_n = [p \in Callers |-> 0]
    /\ cursor = [p \in Callers |-> 0]
    /\ results = [p \in Callers |-> <<>>]
    /\ ret = [p \in Callers |-> <<>>]

\* fnCriteria.matches(fnListing)
CallMatches ==
    /\ fnMatch = "none"
    /\ fnMatch' = IF matches(fnCriteria, fnListing) THEN "true" ELSE "false"
    /\ UNCHANGED <<agentVars, fnListing, fnCriteria, fnScore>>

\* agent._score_listing(fnListing, fnCriteria)
CallScore ==
    /\ fnScore = <<>>
    /\ fnScore' = <<score_listing(fnListing, fnCriteria)>>
    /\ UNCHANGED <<agentVars, fnListing, fnCriteria, fnMatch>>

\* agent.search(fnCriteria), with the default top_n, run by caller p from
\* entry to return.
CallSearch(p) ==
    /\ pc[p] = "idle"
    /\ LET rs == collect(listings, fnCriteria, Len(listings))
       IN  IF \E i \in 1..Len(rs) : IsRaised(rs[i].score)
           THEN /\ pc' = [pc EXCEPT ![p] = "error"]
                /\ UNCHANGED <<results, ret>>
           ELSE /\ pc' = [pc EXCEPT ![p] = "done"]
                /\ results' = [results EXCEPT ![p] = sort_by_score(rs)]
                /\ ret' = [ret EXCEPT ![p] =
                              search(listings, fnCriteria, DefaultTopN)]
    /\ criteria' = [criteria EXCEPT ![p] = fnCriteria]
    /\ top_n' = [top_n EXCEPT ![p] = DefaultTopN]
    /\ cursor' = [cursor EXCEPT ![p] = Len(listings) + 1]
    /\ UNCHANGED <<listings, fnVars>>

NextFn ==
    \/ CallMatches
    \/ CallScore
    \/ CallSearch("t1")

SpecFn ==
    InitFn /\ [][NextFn]_vars

----------------------------------------------------------------------------
(* Properties of search, checked under Spec.                               *)

Min2(a, b) ==
    IF a < b THEN a ELSE b

\* The positions of the repository's listings that satisfy c.matches.
Matching(c) ==
    { i \in 1..Len(listings) : matches(c, listings[i]) }

ScoreAt(c, i) ==
    score_listing(listings[i], c).score

Indexes(rs) ==
    { rs[i].index : i \in 1..Len(rs) }

\* C1: for every repository, criteria and top_n >= 1, the length of what
\* search returns is min(top_n, number of listings that satisfy matches).
C1_TopNLength ==
    \A p \in Callers :
        (pc[p] = "done" /\ top_n[p] >= 1)
            => Len(ret[p]) = Min2(top_n[p], Cardinality(Matching(criteria[p])))

\* A call with top_n = 1 has returned one of two matching listings.
C1_Witness ==
    \E p \in Callers :
        /\ pc[p] = "done"
        /\ top_n[p] = 1
        /\ Cardinality(Matching(criteria[p])) = 2
        /\ Len(ret[p]) = 1

\* C2: the returned sequence is in descending order of score, listings of
\* equal score keep the order of the repository, and a listing left out by
\* the truncation never has the score of a returned listing that comes after
\* it in the repository.
C2_DescendingStable ==
    \A p \in Callers :
        pc[p] = "done" =>
            /\ \A i, j \in 1..Len(ret[p]) :
                  i < j =>
                      /\ RLe(ret[p][j].score, ret[p][i].score)
                      /\ ret[p][i].score = ret[p][j].score
                            => ret[p][i].index < ret[p][j].index
            /\ \A k \in Matching(criteria[p]) \ Indexes(ret[p]) :
                  \A i \in 1..Len(ret[p]) :
                      ret[p][i].score = ScoreAt(criteria[p], k)
                          => ret[p][i].index < k

\* Two different listings tie, top_n = 1 cuts one off, and the one returned
\* is the first of the repository.
C2_Witness ==
    \E p \in Callers :
        /\ pc[p] = "done"
        /\ top_n[p] = 1
        /\ Len(listings) = 2
        /\ listings[1] # listings[2]
        /\ Matching(criteria[p]) = {1, 2}
        /\ ScoreAt(criteria[p], 1) = ScoreAt(criteria[p], 2)
        /\ Indexes(ret[p]) = {1}

\* C3: every returned result refers to a repository listing that satisfies
\* matches, no repository listing is returned twice, and the result is empty
\* when no listing satisfies matches.
C3_OnlyMatching ==
    \A p \in Callers :
        pc[p] = "done" =>
            /\ \A i \in 1..Len(ret[p]) :
                  /\ ret[p][i].index \in 1..Len(listings)
                  /\ ret[p][i].listing = listings[ret[p][i].index]
                  /\ matches(criteria[p], ret[p][i].listing)
            /\ \A i, j \in 1..Len(ret[p]) :
                  i # j => ret[p][i].index # ret[p][j].index
            /\ Matching(criteria[p]) = {} => ret[p] = <<>>

\* A listing that fails matches would have scored above everything returned.
C3_Witness ==
    \E p \in Callers :
        /\ pc[p] = "done"
        /\ ret[p] # <<>>
        /\ \E k \in 1..Len(listings) :
              /\ ~matches(criteria[p], listings[k])
              /\ RLt(ret[p][1].score, ScoreAt(criteria[p], k))

\* C8: two completed calls of search on the agent with the same criteria and
\* the same top_n have returned the same sequence (listings, order, scores,
\* breakdowns), whatever was searched in between.
C8_SameCallSameResult ==
    \A p, q \in Callers :
        (/\ pc[p] = "done"
         /\ pc[q] = "done"
         /\ criteria[p] = criteria[q]
         /\ top_n[p] = top_n[q])
            => ret[p] = ret[q]

\* Two callers have completed the same call with a ranking of two results.
C8_Witness ==
    \E p, q \in Callers :
        /\ p # q
        /\ pc[p] = "done"
        /\ pc[q] = "done"
        /\ criteria[p] = criteria[q]
        /\ top_n[p] = top_n[q]
        /\ Len(ret[p]) = 2
        /\ ret[p][1].listing # ret[p][2].listing

\* C9: under every interleaving, a caller's completed call has returned what
\* the call returns when run alone, and the list a caller is building holds
\* exactly the results of the listings its own loop has visited.
C9_ConcurrentAsAlone ==
    \A p \in Callers :
        /\ pc[p] = "done"
              => ret[p] = search(listings, criteria[p], top_n[p])
        /\ pc[p] = "loop"
              => results[p] = collect(listings, criteria[p], cursor[p] - 1)

\* Two callers with different criteria are both inside the loop, each with a
\* partly built list.
C9_Witness ==
    \E p, q \in Callers :
        /\ p # q
        /\ pc[p] = "loop"
        /\ pc[q] = "loop"
        /\ criteria[p] # criteria[q]
        /\ results[p] # <<>>
        /\ results[q] # <<>>
        /\ cursor[p] <= Len(listings)
        /\ cursor[q] <= Len(listings)

----------------------------------------------------------------------------
(* Properties of matches and _score_listing, checked under SpecFn.         *)

MemberIgnoringCase(s, S) ==
    \E t \in S : Lower(t) = Lower(s)

\* Some configured constraint of c is violated by listing.
Violated(listing, c) ==
    \/ c.preferred_macrozones # {}
          /\ ~MemberIgnoringCase(macrozone(listing), c.preferred_macrozones)
    \/ c.preferred_regions # {}
          /\ ~MemberIgnoringCase(listing.region, c.preferred_regions)
    \/ c.desired_property_types # {}
          /\ ~MemberIgnoringCase(listing.property_type, c.desired_property_types)
    \/ c.target_zonings # {}
          /\ ~MemberIgnoringCase(listing.zoning, c.target_zonings)
    \/ RLt(listing.area_m2, area_threshold_m2(c))
    \/ ~IsNone(c.max_total_price)
          /\ RLt(c.max_total_price, total_price(listing))
    \/ ~IsNone(c.max_price_per_m2)
          /\ RLt(c.max_price_per_m2, listing.price_per_m2)
    \/ \E s \in c.required_services : ~MemberIgnoringCase(s, listing.services)

\* C4: matches is false exactly when a configured constraint is violated, and
\* true for every listing under the default criteria.
C4_MatchesIffNoViolation ==
    fnMatch # "none" =>
        /\ (fnMatch = "false") <=> Violated(fnListing, fnCriteria)
        /\ fnCriteria = DefaultCriteria => fnMatch = "true"

\* matches rejected a listing whose only violation is a price cap of 0.
C4_Witness ==
    /\ fnMatch = "false"
    /\ fnCriteria = [DefaultCriteria EXCEPT !.max_total_price = Num(0)]

SumOfBreakdown(b) ==
    RAdd(b.superficie,
         RAdd(b.conectividad, RAdd(b.precio, RAdd(b.servicios, b.ubicacion))))

BreakdownAddsUp(r) ==
    /\ DOMAIN r.breakdown = Dimensions
    /\ SumOfBreakdown(r.breakdown) = r.score

\* C5: the breakdown of _score_listing has exactly the five dimensions and
\* they sum to the score; the same for every result search returns.
C5_BreakdownSumsToScore ==
    /\ fnScore # <<>> => BreakdownAddsUp(fnScore[1])
    /\ \A p \in Callers :
          \A i \in 1..Len(ret[p]) : BreakdownAddsUp(ret[p][i])

\* A listing was scored with five non-zero contributions and also returned
\* by search.
C5_Witness ==
    /\ fnScore # <<>>
    /\ \A k \in Dimensions : fnScore[1].breakdown[k].n > 0
    /\ \E p \in Callers : ret[p] # <<>>

Superficie ==
    fnScore[1].breakdown.superficie

\* C6 as stated: whenever area_m2 >= 4 x area_threshold_m2 the area
\* contribution is 0.2, for every threshold, one of 0 or below 1 included.
C6_AsStated ==
    fnScore # <<>> =>
        (RLe(RMul(Num(4), area_threshold_m2(fnCriteria)), fnListing.area_m2)
            => Superficie = Rat(2, 10))

\* C6 (amended): whenever area_m2 >= 4 x max(area_threshold_m2, 1) the area
\* contribution is exactly 0.2; a threshold below 1 counts as 1.
C6_SaturatesAboveFloor ==
    fnScore # <<>> =>
        (RLe(RMul(Num(4), RMax(area_threshold_m2(fnCriteria), Num(1))),
             fnListing.area_m2)
            => Superficie = Rat(2, 10))

\* A listing of exactly four times a threshold of 5000 m2 was scored.
C6_Witness ==
    /\ fnScore # <<>>
    /\ area_threshold_m2(fnCriteria) = Num(5000)
    /\ fnListing.area_m2 = Num(20000)

RECURSIVE WeightedAvailability(_, _, _, _)
WeightedAvailability(w, S, data, modes) ==
    IF modes = {} THEN Num(0)
    ELSE LET m == CHOOSE x \in modes : TRUE
         IN  RAdd(RMul(RDiv(w[m], S), mode_availability(m, data)),
                  WeightedAvailability(w, S, data, modes \ {m}))

\* 0.09 without weights, else 0.15 x the sum of (weight / S) x availability,
\* S the raw sum of the weights or 1 when that sum is zero.
ClaimedConnectivity(listing, w) ==
    IF DOMAIN w = {} THEN Rat(9, 100)
    ELSE LET raw == SumValues(w, DOMAIN w)
             S == IF raw = Num(0) THEN Num(1) ELSE raw
         IN  RMul(Rat(15, 100),
                  WeightedAvailability(w, S, listing.transport, DOMAIN w))

ScaleWeights(w, k) ==
    [m \in DOMAIN w |-> RMul(w[m], Num(k))]

\* C7: the connectivity contribution is 0.09 when transport_importance is
\* empty and otherwise 0.15 x the availability weighted by weight / S; weights
\* that are all zero give 0, and multiplying every weight by the same positive
\* constant leaves the contribution unchanged.
C7_Connectivity ==
    fnScore # <<>> =>
        LET w == fnCriteria.transport_importance
            got == fnScore[1].breakdown.conectividad
        IN  /\ got = ClaimedConnectivity(fnListing, w)
            /\ (DOMAIN w # {} /\ \A m \in DOMAIN w : w[m] = Num(0))
                  => got = Num(0)
            /\ \A k \in 2..MaxScale :
                  RMul(Rat(15, 100),
                       transport_score(fnListing, ScaleWeights(w, k))) = got

\* A listing was scored under weights whose sum is 4, with a contribution
\* that is neither 0 nor the flat 0.09.
C7_Witness ==
    /\ fnScore # <<>>
    /\ DOMAIN fnCriteria.transport_importance # {}
    /\ SumValues(fnCriteria.transport_importance,
                 DOMAIN fnCriteria.transport_importance) = Num(4)
    /\ fnScore[1].breakdown.conectividad.n > 0
    /\ fnScore[1].breakdown.conectividad # Rat(9, 100)

\* C10: search never ends in an error: whatever the listing and the criteria
\* (price caps of 0, a threshold of 0 with an area of 0, weights summing to 0),
\* no call ends with a ZeroDivisionError.
C10_SearchNeverRaises ==
    /\ \A p \in Callers : pc[p] # "error"
    /\ fnScore # <<>> => ~ScoreRaised(fnScore[1])

\* search has returned a listing of area 0 and price 0 under caps of 0, a
\* threshold of 0 and weights that sum to 0.
C10_Witness ==
    \E p \in Callers :
        /\ pc[p] = "done"
        /\ criteria[p] = ZeroCriteria
        /\ area_threshold_m2(criteria[p]) = Num(0)
        /\ ret[p] # <<>>
        /\ ret[p][1].listing.area_m2 = Num(0)

----------------------------------------------------------------------------
(* Frame of search, checked under Spec.                                    *)

\* C11: no step of search changes the repository (its listings, their fields
\* and their order), and the criteria and top_n of a call stay as passed
\* while the call runs; so the repository always equals the one the agent
\* was built with.
C11_RepositoryUnchanged ==
    [][ /\ listings' = listings
        /\ \A p \in Callers :
              pc[p] = "loop" => /\ criteria'[p] = criteria[p]
                                /\ top_n'[p] = top_n[p] ]_vars

\* A call has returned two results in the reverse of the repository's order:
\* the sort moved the results, and the repository is still as built.
C11_Witness ==
    \E p \in Callers :
        /\ pc[p] = "done"
        /\ Len(ret[p]) = 2
        /\ ret[p][1].index = 2
        /\ ret[p][2].index = 1
        /\ listings[1] # listings[2]

----------------------------------------------------------------------------
(* Properties of the price, location and area rules, checked under SpecFn. *)

\* max(0, 1 - min(value / cap, 1.5))
CapScore(value, cap) ==
    RMax(Num(0), RSub(Num(1), RMin(RDiv(value, cap), Rat(3, 2))))

\* 0.2 x price_component, totalSet and perM2Set telling which caps count as
\* set.
ClaimedPrecio(listing, c, totalSet, perM2Set) ==
    LET first == IF totalSet
                 THEN CapScore(total_price(listing), c.max_total_price)
                 ELSE Rat(6, 10)
        both == IF perM2Set
                THEN RDiv(RAdd(first, CapScore(listing.price_per_m2,
                                               c.max_price_per_m2)),
                          Num(2))
                ELSE first
    IN  RMul(Rat(2, 10), both)

\* C12 as stated: the price contribution follows the formula whenever a cap
\* is set, that is under the condition of the filter (not None), a cap of 0
\* included.
C12_AsStated ==
    fnScore # <<>> =>
        fnScore[1].breakdown.precio =
            ClaimedPrecio(fnListing, fnCriteria,
                          ~IsNone(fnCriteria.max_total_price),
                          ~IsNone(fnCriteria.max_price_per_m2))

\* C12 (amended): the price contribution is 0.2 x price_component, where
\* price_component is 0.6 when max_total_price is None or 0 and
\* max(0, 1 - min(total_price / max_total_price, 1.5)) when it is set to a
\* non-zero value; when max_price_per_m2 is set to a non-zero value it is
\* replaced by the average of itself and the same formula on price_per_m2.
C12_PriceContribution ==
    fnScore # <<>> =>
        fnScore[1].breakdown.precio =
            ClaimedPrecio(fnListing, fnCriteria,
                          ~IsNone(fnCriteria.max_total_price)
                              /\ fnCriteria.max_total_price # Num(0),
                          ~IsNone(fnCriteria.max_price_per_m2)
                              /\ fnCriteria.max_price_per_m2 # Num(0))

\* A listing was scored under two non-zero caps, below both, with a price
\* contribution strictly between 0 and 0.2.
C12_Witness ==
    /\ fnScore # <<>>
    /\ fnCriteria.max_total_price = Num(60000)
    /\ fnCriteria.max_price_per_m2 = Rat(9, 2)
    /\ RLt(Num(0), total_price(fnListing))
    /\ RLt(total_price(fnListing), fnCriteria.max_total_price)
    /\ RLt(fnListing.price_per_m2, fnCriteria.max_price_per_m2)
    /\ RLt(Num(0), fnScore[1].breakdown.precio)
    /\ RLt(fnScore[1].breakdown.precio, Rat(2, 10))

\* v of the location rule: 1.0 / 0.4 by exact membership of the region, else
\* 0.9 / 0.5 by exact membership of the macrozone, else 0.7.
ClaimedLocationValue(listing, c) ==
    IF c.preferred_regions # {}
    THEN (IF \E r \in c.preferred_regions : r = listing.region
          THEN Num(1) ELSE Rat(4, 10))
    ELSE IF c.preferred_macrozones # {}
    THEN (IF \E z \in c.preferred_macrozones : z = macrozone(listing)
          THEN Rat(9, 10) ELSE Rat(5, 10))
    ELSE Rat(7, 10)

\* The region equals a preferred region up to letter case only.
RegionUpToCaseOnly(listing, c) ==
    /\ listing.region \notin c.preferred_regions
    /\ MemberIgnoringCase(listing.region, c.preferred_regions)

\* C13: the location contribution is 0.25 x v with v decided by exact,
\* case-sensitive membership; a listing whose region equals a preferred
\* region only up to letter case passes the region filter and, when search
\* returns it, carries 0.10 and the label "Region alternativa".
C13_LocationCaseSensitive ==
    /\ fnScore # <<>> =>
          fnScore[1].breakdown.ubicacion =
              RMul(Rat(25, 100), ClaimedLocationValue(fnListing, fnCriteria))
    /\ (fnMatch # "none" /\ RegionUpToCaseOnly(fnListing, fnCriteria)) =>
          (fnMatch = "true" <=>
              ~Violated(fnListing,
                        [fnCriteria EXCEPT !.preferred_regions = {}]))
    /\ \A p \in Callers :
          (pc[p] = "done" /\ RegionUpToCaseOnly(fnListing, fnCriteria)) =>
              /\ fnMatch = "true" => Len(ret[p]) = 1
              /\ \A i \in 1..Len(ret[p]) :
                    /\ ret[p][i].breakdown.ubicacion = Rat(10, 100)
                    /\ ret[p][i].highlights.ubicacion = "Region alternativa"

\* search has returned a listing of region "MAULE" under the preferred
\* region "Maule".
C13_Witness ==
    \E p \in Callers :
        /\ pc[p] = "done"
        /\ fnCriteria.preferred_regions = {"Maule"}
        /\ fnListing.region = "MAULE"
        /\ fnMatch = "true"
        /\ Len(ret[p]) = 1
        /\ ret[p][1].highlights.ubicacion = "Region alternativa"

\* The criteria constrain nothing but the area.
OnlyAreaConstrained(c) ==
    c = [DefaultCriteria EXCEPT !.min_area_m2 = c.min_area_m2,
                                !.min_area_hectares = c.min_area_hectares]

\* matches rejects exactly the listings whose area is strictly below t: a
\* smaller area is rejected whatever else is configured, and with nothing
\* else configured no other listing is.
RejectsExactlyBelow(t) ==
    fnMatch # "none" =>
        /\ RLt(fnListing.area_m2, t) => fnMatch = "false"
        /\ (OnlyAreaConstrained(fnCriteria) /\ fnMatch = "false")
              => RLt(fnListing.area_m2, t)

\* C14 as stated: for all values of the two fields the derived threshold is
\* max(min_area_m2, min_area_hectares x 10000), and the filter rejects exactly
\* the listings below it.
C14_AsStated ==
    LET t == RMax(fnCriteria.min_area_m2,
                  RMul(fnCriteria.min_area_hectares, Num(10000)))
    IN  /\ area_threshold_m2(fnCriteria) = t
        /\ RejectsExactlyBelow(t)

\* C14 (amended): the derived threshold is
\* max(0, min_area_m2, min_area_hectares x 10000), which is
\* max(min_area_m2, min_area_hectares x 10000) unless both are negative, and
\* the filter rejects exactly the listings whose area is strictly below it.
C14_ThresholdClampedAtZero ==
    LET t == RMax(Num(0),
                  RMax(fnCriteria.min_area_m2,
                       RMul(fnCriteria.min_area_hectares, Num(10000))))
    IN  /\ area_threshold_m2(fnCriteria) = t
        /\ RejectsExactlyBelow(t)

\* matches rejected a listing of 3000 m2 under half a hectare, the hectares
\* being the larger of the two minimums.
C14_Witness ==
    /\ fnMatch = "false"
    /\ fnCriteria = [DefaultCriteria EXCEPT !.min_area_m2 = Rat(1, 2),
                                            !.min_area_hectares = Rat(1, 2)]
    /\ area_threshold_m2(fnCriteria) = Num(5000)
    /\ fnListing.area_m2 = Num(3000)

----------------------------------------------------------------------------
(* Range of the score, checked under SpecFn.                               *)

\* The weight of each dimension.
Weight(k) ==
    CASE k = "ubicacion" -> Rat(25, 100)
      [] k = "servicios" -> Rat(40, 100)
      [] k = "precio" -> Rat(20, 100)
      [] k = "conectividad" -> Rat(15, 100)
      [] k = "superficie" -> Rat(20, 100)

\* Non-negative area, price, distances and weights; price caps unset or
\* positive.
NonNegativeInputs(listing, c) ==
    /\ RLe(Num(0), listing.area_m2)
    /\ RLe(Num(0), listing.price_per_m2)
    /\ \A k \in DOMAIN listing.transport \cap {"distancia_km", "aeropuerto_km"} :
          IsNumber(listing.transport[k]) => listing.transport[k].n >= 0
    /\ \A m \in DOMAIN c.transport_importance :
          RLe(Num(0), c.transport_importance[m])
    /\ IsNone(c.max_total_price) \/ RLt(Num(0), c.max_total_price)
    /\ IsNone(c.max_price_per_m2) \/ RLt(Num(0), c.max_price_per_m2)

WithinWeights(r) ==
    /\ \A k \in Dimensions :
          /\ RLe(Num(0), r.breakdown[k])
          /\ RLe(r.breakdown[k], Weight(k))
    /\ RLe(Num(0), r.score)
    /\ RLe(r.score, Rat(12, 10))

\* C15: for non-negative area, price, distances and weights and positive
\* price caps, each breakdown value lies between 0 and its weight (0.25, 0.40,
\* 0.20, 0.15, 0.20) and the score of every result lies in [0, 1.2].
C15_ScoreWithinWeights ==
    NonNegativeInputs(fnListing, fnCriteria) =>
        /\ fnScore # <<>> => WithinWeights(fnScore[1])
        /\ \A p \in Callers :
              \A i \in 1..Len(ret[p]) : WithinWeights(ret[p][i])

\* The upper bound is attained: search has returned a result of score 1.2,
\* every dimension at its weight.
C15_Witness ==
    /\ NonNegativeInputs(fnListing, fnCriteria)
    /\ \E p \in Callers :
          /\ pc[p] = "done"
          /\ Len(ret[p]) = 1
          /\ ret[p][1].score = Rat(12, 10)
          /\ \A k \in Dimensions : ret[p][1].breakdown[k] = Weight(k)

====
